---- MODULE Spec2Model ----
(***************************************************************************)
(* Mirror resolution and integrity verification of SuperISOUpdater:        *)
(* modules/Version.py, modules/mirrors/GenericMirror.py,                   *)
(* modules/mirrors/GenericMirrorManager.py and modules/utils.py.           *)
(*                                                                         *)
(* Strings are sequences of one-character strings.  A mirror is a number   *)
(* in 1..NMirrors; the remote side of a mirror (its page, the bytes it     *)
(* serves, whether a request fails) is chosen by the environment at the    *)
(* moment the code asks for it.                                            *)
(***************************************************************************)
EXTENDS Integers, Sequences, FiniteSets, TLC

\* ------------------------------------------------------------------ bounds
\* number of mirror objects a caller can hand to a manager
NMirrors == 3
\* the finite speeds a probe can measure are 1..MaxSpeed
MaxSpeed == 1
\* number of matching links a mirror page can carry
MaxLinks == 2
\* number of calls a caller makes on a constructed manager
MaxCalls == 2
\* length of the version strings handed to Version and to the updater
MaxLen == 3
\* the zero_pad widths a Version is constructed with are 0 and MaxPad
MaxPad == 2
MaxSums == 2
MaxTime == 3
MaxTtl == 2

Mirrors == 1..NMirrors

\* ------------------------------------------------------------ Version.py
Digits == <<"0", "1", "2", "3", "4", "5", "6", "7", "8", "9">>
\* the characters of the model, in code-point order
CharTable == <<"-", ".", "0", "1", "2", "3", "4", "5", "6", "7", "8", "9", "A", "B", "a", "b">>

Ord(c) == CHOOSE k \in 1..Len(CharTable) : CharTable[k] = c

IsDigit(c) == \E k \in 1..Len(Digits) : Digits[k] = c

IsLetter(c) == c \in {"A", "B", "a", "b"}

DigitVal(c) == (CHOOSE k \in 1..Len(Digits) : Digits[k] = c) - 1

\* "d" for a digit, "l" for a letter, "o" for anything else
CharClass(c) == IF IsDigit(c) THEN "d" ELSE IF IsLetter(c) THEN "l" ELSE "o"

RECURSIVE IntOf(_, _)
\* int(token) of a digit run, most significant digit first
IntOf(run, acc) ==
    IF run = <<>> THEN acc ELSE IntOf(Tail(run), 10 * acc + DigitVal(Head(run)))

\* a token: an int, or a str kept as its characters
IntToken(n) == [int |-> TRUE, n |-> n, s |-> <<>>]

StrToken(s) == [int |-> FALSE, n |-> 0, s |-> s]

\* mutant of MakeToken: a digit run is kept as the string it is
MakeToken_KeepsDigits(run) == StrToken(run)

MakeToken(run) ==
    IF IsDigit(run[1]) THEN IntToken(IntOf(run, 0)) ELSE StrToken(run)

RECURSIVE Scan(_, _, _)
\* _token_regex.findall: maximal digit runs and maximal letter runs, left to right
Scan(rest, run, toks) ==
    IF rest = <<>>
    THEN IF run = <<>> THEN toks ELSE Append(toks, MakeToken(run))
    ELSE LET c == Head(rest)
             k == CharClass(c)
         IN  IF run # <<>> /\ k = CharClass(run[1])
             THEN Scan(Tail(rest), Append(run, c), toks)
             ELSE LET done == IF run = <<>> THEN toks ELSE Append(toks, MakeToken(run))
                  IN  Scan(Tail(rest), IF k = "o" THEN <<>> ELSE <<c>>, done)

_parse_component(component) == Scan(component, <<>>, <<>>)

RECURSIVE SplitOn(_, _, _, _)
\* str.split(sep) for a one-character separator
SplitOn(rest, sep, cur, out) ==
    IF rest = <<>> THEN Append(out, cur)
    ELSE IF Head(rest) = sep
         THEN SplitOn(Tail(rest), sep, <<>>, Append(out, cur))
         ELSE SplitOn(Tail(rest), sep, Append(cur, Head(rest)), out)

\* version_string.split(separator) if separator else list(version_string)
Components(version_string, separator) ==
    IF separator = <<>>
    THEN [k \in 1..Len(version_string) |-> <<version_string[k]>>]
    ELSE SplitOn(version_string, separator[1], <<>>, <<>>)

\* Version(version_string, separator, zero_pad); the caller has checked that
\* version_string is not empty (the constructor raises ValueError otherwise)
Version(version_string, separator, zero_pad) ==
    LET comps == Components(version_string, separator)
    IN  [raw        |-> version_string,
         separator  |-> separator,
         zero_pad   |-> zero_pad,
         components |-> comps,
         parsed     |-> [k \in 1..Len(comps) |-> _parse_component(comps[k])]]

Sign(x) == IF x > 0 THEN 1 ELSE IF x < 0 THEN -1 ELSE 0

Min2(a, b) == IF a < b THEN a ELSE b

RECURSIVE StrCmp_IgnoreCase(_, _)
\* mutant of StrCmp: letters are ordered without regard to case
StrCmp_IgnoreCase(a, b) ==
    LET Fold(c) == IF c = "A" THEN "a" ELSE IF c = "B" THEN "b" ELSE c
    IN  IF a = <<>> \/ b = <<>> THEN Sign(Len(a) - Len(b))
        ELSE IF Fold(Head(a)) # Fold(Head(b))
             THEN Sign(Ord(Fold(Head(a))) - Ord(Fold(Head(b))))
             ELSE StrCmp_IgnoreCase(Tail(a), Tail(b))

RECURSIVE StrCmp(_, _)
\* (a > b) - (a < b) on two str
StrCmp(a, b) ==
    IF a = <<>> \/ b = <<>> THEN Sign(Len(a) - Len(b))
    ELSE IF Head(a) # Head(b) THEN Sign(Ord(Head(a)) - Ord(Head(b)))
         ELSE StrCmp(Tail(a), Tail(b))

\* mutant of _cmp_tokens: of two tokens of different types the left one is less
_cmp_tokens_LeftOfMixedIsLess(left, right) ==
    IF left.int /\ right.int THEN Sign(left.n - right.n)
    ELSE IF left.int \/ right.int THEN -1
    ELSE StrCmp(left.s, right.s)

_cmp_tokens(left, right) ==
    IF left.int /\ right.int THEN Sign(left.n - right.n)
    ELSE IF left.int THEN -1
    ELSE IF right.int THEN 1
    ELSE StrCmp(left.s, right.s)

RECURSIVE ZipCompareTokens_IgnoresLength(_, _, _)
\* mutant of ZipCompareTokens: tokens left over on one side do not count
ZipCompareTokens_IgnoresLength(l, r, k) ==
    IF k > Min2(Len(l), Len(r)) THEN 0
    ELSE LET c == _cmp_tokens(l[k], r[k])
         IN  IF c # 0 THEN c ELSE ZipCompareTokens_IgnoresLength(l, r, k + 1)

RECURSIVE ZipCompareTokens(_, _, _)
ZipCompareTokens(l, r, k) ==
    IF k > Min2(Len(l), Len(r)) THEN Sign(Len(l) - Len(r))
    ELSE LET c == _cmp_tokens(l[k], r[k])
         IN  IF c # 0 THEN c ELSE ZipCompareTokens(l, r, k + 1)

_compare_parsed(left_tokens, right_tokens) ==
    ZipCompareTokens(left_tokens, right_tokens, 1)

RECURSIVE ZipCompareComponents(_, _, _)
ZipCompareComponents(l, r, k) ==
    IF k > Min2(Len(l), Len(r)) THEN Sign(Len(l) - Len(r))
    ELSE LET c == _compare_parsed(l[k], r[k])
         IN  IF c # 0 THEN c ELSE ZipCompareComponents(l, r, k + 1)

_compare(self, other) == ZipCompareComponents(self.parsed, other.parsed, 1)

\* mutant of VersionEq: equality of the version strings
VersionEq_ByString(a, b) == a.raw = b.raw

\* Version.__eq__ and Version.__gt__
VersionEq(a, b) == _compare(a, b) = 0

VersionGt(a, b) == _compare(a, b) > 0

\* mutant of Version__init__: the empty string is accepted
Version__init___AcceptsEmpty(version_string, separator, zero_pad) ==
    [exc |-> "none", value |-> Version(version_string, separator, zero_pad)]

\* Version.__init__ with its guard: what the constructor raises, and the object
Version__init__(version_string, separator, zero_pad) ==
    IF version_string = <<>>
    THEN [exc |-> "ValueError", value |-> <<>>]
    ELSE [exc |-> "none", value |-> Version(version_string, separator, zero_pad)]

\* the rich comparisons of Version, all through _compare
RichCompare(a, b) ==
    [eq |-> _compare(a, b) = 0,
     lt |-> _compare(a, b) < 0,
     gt |-> _compare(a, b) > 0,
     le |-> _compare(a, b) <= 0,
     ge |-> _compare(a, b) >= 0]

RECURSIVE Decimal(_)
\* str(n) of an int n >= 0
Decimal(n) == IF n < 10 THEN <<Digits[n + 1]>> ELSE Append(Decimal(n \div 10), Digits[(n % 10) + 1])

RECURSIVE ZeroFill(_, _)
\* f"{n:0{width}d}": str(n) left-padded with zeros to width
ZeroFill(digits, width) ==
    IF Len(digits) >= width THEN digits ELSE ZeroFill(<<"0">> \o digits, width)

\* what iterating a str yields: its characters, each a str and never an int
ItemsOf(comp) == [j \in 1..Len(comp) |-> StrToken(<<comp[j]>>)]

\* the expression of __str__ for one item tok
FormatItem(tok, zero_pad) ==
    IF tok.int /\ zero_pad > 0 THEN ZeroFill(Decimal(tok.n), zero_pad)
    ELSE IF tok.int THEN Decimal(tok.n) ELSE tok.s

RECURSIVE Join(_, _)
\* separator.join(parts)
Join(separator, parts) ==
    IF parts = <<>> THEN <<>>
    ELSE IF Len(parts) = 1 THEN parts[1]
    ELSE parts[1] \o separator \o Join(separator, Tail(parts))

\* Version.__str__: the inner loop runs over the items of each element of
\* self.components, which are strs
__str__(v) ==
    Join(v.separator,
         [k \in 1..Len(v.components) |->
             Join(<<>>, [j \in 1..Len(v.components[k]) |->
                            FormatItem(ItemsOf(v.components[k])[j], v.zero_pad)])])

\* ------------------------------------------------- updaters/GenericUpdater.py
\* GenericUpdater.__init__: self.version_splitter
version_splitter == <<".">>

RECURSIVE Strip(_)
\* str.strip(): without leading and trailing blanks
Strip(str) ==
    IF str = <<>> THEN str
    ELSE IF Head(str) = " " THEN Strip(Tail(str))
    ELSE IF str[Len(str)] = " " THEN Strip(SubSeq(str, 1, Len(str) - 1))
    ELSE str

_str_to_version(version_str) ==
    LET parts == SplitOn(version_str, version_splitter[1], <<>>, <<>>)
    IN  [k \in 1..Len(parts) |-> Strip(parts[k])]

\* the value of one character as a digit of base 32, 32 if it is none
B32Val(c) ==
    IF IsDigit(c) THEN DigitVal(c)
    ELSE IF c \in {"a", "A"} THEN 10
    ELSE IF c \in {"b", "B"} THEN 11
    ELSE 32

\* int(str, base) raises ValueError unless str is a non-empty run of digits of base
IsInt(str, base) ==
    /\ str # <<>>
    /\ \A k \in 1..Len(str) : B32Val(str[k]) < base

RECURSIVE IntBase(_, _, _)
IntBase(str, base, acc) ==
    IF str = <<>> THEN acc ELSE IntBase(Tail(str), base, base * acc + B32Val(Head(str)))

RECURSIVE CompareLoop(_, _, _)
\* the loop of _compare_version_numbers from index i (1-based) on.  In the try:
\* int(new_version[i]), then old_version[i], then int(...) of it.  A ValueError
\* sends both through int(..., 32) inside the handler, where nothing is caught.
CompareLoop(old_version, new_version, i) ==
    IF i > Len(new_version) THEN [exc |-> "none", value |-> FALSE]
    ELSE IF IsInt(new_version[i], 10) /\ i > Len(old_version)
    THEN \* except IndexError
         [exc |-> "none", value |-> TRUE]
    ELSE IF IsInt(new_version[i], 10) /\ IsInt(old_version[i], 10)
    THEN IF IntBase(new_version[i], 10, 0) > IntBase(old_version[i], 10, 0)
         THEN [exc |-> "none", value |-> TRUE]
         ELSE CompareLoop(old_version, new_version, i + 1)
    ELSE \* except ValueError
         IF ~IsInt(new_version[i], 32) THEN [exc |-> "ValueError", value |-> FALSE]
         ELSE IF i > Len(old_version) THEN [exc |-> "IndexError", value |-> FALSE]
         ELSE IF ~IsInt(old_version[i], 32) THEN [exc |-> "ValueError", value |-> FALSE]
         ELSE IF IntBase(new_version[i], 32, 0) > IntBase(old_version[i], 32, 0)
         THEN [exc |-> "none", value |-> TRUE]
         ELSE CompareLoop(old_version, new_version, i + 1)

_compare_version_numbers(old_version, new_version) ==
    CompareLoop(old_version, new_version, 1)

\* GenericUpdater.check_for_updates; local_version is <<>> when there is no
\* local file (_get_local_version returned None)
check_for_updates(local_version, latest_version) ==
    IF local_version = <<>> THEN [exc |-> "none", value |-> TRUE]
    ELSE _compare_version_numbers(local_version, latest_version)

\* the paths install_latest_version touches: "new" is new_file, "bak" is
\* old_file.with_suffix(".old"), "old" is old_file when it is another path
\* than new_file; each holds "none" (no file), "installed" (the previously
\* installed copy), "backup" (an earlier .old file) or "downloaded"
InstallPaths == {"new", "old", "bak"}

\* GenericUpdater._get_local_file: None, the path of new_file, or the path of
\* another version's file; a name without [[VER]] matches new_file only
LocalFiles(has_version) ==
    IF has_version THEN {"none", "same", "other"} ELSE {"none", "same"}

\* the path old_file stands for
OldPath(old_file) == IF old_file = "same" THEN "new" ELSE "old"

\* the folder before the call
FsBefore(old_file, backup) ==
    [p \in InstallPaths |->
        IF p = "bak" THEN (IF backup THEN "backup" ELSE "none")
        ELSE IF old_file # "none" /\ p = OldPath(old_file) THEN "installed"
        ELSE "none"]

\* Path.replace(src, dst) on an existing src; renaming a file onto itself
\* changes nothing
replace(fs, src, dst) ==
    IF src = dst THEN fs ELSE [fs EXCEPT ![dst] = fs[src], ![src] = "none"]

\* Path.unlink(path) on an existing path
unlink(fs, path) == [fs EXCEPT ![path] = "none"]

\* GenericUpdater.install_latest_version.  link and dl say whether
\* _get_download_link and download_file succeed; integrity is what
\* check_integrity does: "true", "false" or "raise"
install_latest_version(has_version, old_file, fs, link, dl, integrity) ==
    LET old_path == OldPath(old_file)
        renames == ~has_version /\ old_file # "none"
        renamed == IF renames THEN replace(fs, "bak", old_path) ELSE fs
        got == [renamed EXCEPT !["new"] = "downloaded"]
        rolled_back == IF has_version \/ old_file = "none"
                       THEN unlink(got, "new")
                       ELSE replace(got, old_path, "new")
        cleaned == IF old_file # "none" THEN unlink(got, old_path) ELSE got
    IN  IF ~link
        THEN [exc |-> "DownloadLinkNotFoundError", fs |-> fs]
        ELSE IF renames /\ fs["bak"] = "none"
        THEN [exc |-> "FileNotFoundError", fs |-> fs]
        ELSE IF ~dl
        THEN [exc |-> "RequestException", fs |-> renamed]
        ELSE IF integrity # "true"
        THEN [exc |-> "IntegrityCheckError", fs |-> rolled_back]
        ELSE [exc |-> "none", fs |-> cleaned]

\* ------------------------------------------------ the environment's choices
\* version strings a link of a mirror page can carry (group 1 of version_regex)
RawVersions == {<<"1", ".", "0">>, <<"1", ".", "2">>, <<"1", ".", "0", "2">>, <<"0">>}

\* the links of a page that match file_regex, in page order
Pages == UNION {[1..n -> RawVersions] : n \in 0..MaxLinks}

\* float("inf"): larger than every finite speed
Inf == MaxSpeed + 1

Speeds == 1..Inf

\* the characters of the strings callers hand to Version
VersionChars == {"0", "1", "a", "B", "."}

\* every string of at most MaxLen of them, the empty one included
VersionStrings == UNION {[1..n -> VersionChars] : n \in 0..MaxLen}

\* separator: the default, or empty ("split into characters")
Separators == {<<".">>, <<>>}

ZeroPads == {0, MaxPad}

\* the sku ids of the languages a caller asks for
Skus == {"sku1", "sku2"}

\* where a request of initialize() fails, if anywhere
FailPoints == {"none", "fetch", "link", "sums", "sig", "speed"}

\* -------------------------------------------------------- GenericMirror.py
NoVersion == [raw |-> <<>>, separator |-> <<>>, zero_pad |-> 0,
              components |-> <<>>, parsed |-> <<>>]

\* GenericMirror.__init__: the options a mirror object is constructed with
has_signature(m) == m % 3 # 0

signature_file(m) == m % 3 = 1

_version_separator(m) == <<".">>

RECURSIVE DetermineLoop(_, _, _)
DetermineLoop(page, m, latest_version) ==
    IF page = <<>> THEN latest_version
    ELSE LET current_version == Version(Head(page), _version_separator(m), 0)
         IN  DetermineLoop(Tail(page), m,
                 IF VersionGt(current_version, latest_version)
                 THEN current_version ELSE latest_version)

\* GenericMirror._determine_version over the matching links of the page
_determine_version(page, m) ==
    LET latest_version == DetermineLoop(page, m, Version(<<"0">>, <<".">>, 0))
    IN  IF VersionEq(latest_version, Version(<<"0">>, <<".">>, 0))
        THEN [exc |-> "ValueError: no version", value |-> NoVersion]
        ELSE [exc |-> "none", value |-> latest_version]

\* GenericMirror.initialize: the fields it has assigned when it returns or raises
initialize(m, fail, page, sp) ==
    IF fail = "fetch"
    THEN [exc |-> "HTTPError: page", version |-> NoVersion, speed |-> 0]
    ELSE LET v == _determine_version(page, m)
         IN  IF v.exc # "none"
             THEN [exc |-> v.exc, version |-> NoVersion, speed |-> 0]
             ELSE IF fail = "link"
             THEN [exc |-> "DownloadLinkNotFoundError", version |-> v.value, speed |-> 0]
             ELSE IF fail = "sums"
             THEN [exc |-> "ValueError: no sums", version |-> v.value, speed |-> 0]
             ELSE IF fail = "sig" /\ has_signature(m)
             THEN [exc |-> "RuntimeError: no signature", version |-> v.value, speed |-> 0]
             ELSE IF fail = "speed"
             THEN [exc |-> "HTTPError: probe", version |-> v.value, speed |-> 0]
             ELSE [exc |-> "none", version |-> v.value, speed |-> sp]

\* ------------------------------------------------------------ the file system
NoFile == [exists |-> FALSE, src |-> 0, intact |-> FALSE, signed |-> FALSE]

\* the previously installed copy (src 0)
OldFile == [exists |-> TRUE, src |-> 0, intact |-> TRUE, signed |-> TRUE]

\* the bytes mirror m serves: intact iff they match the published digests,
\* signed iff the published signature verifies over them
Served(m, intact, signed) == [exists |-> TRUE, src |-> m, intact |-> intact, signed |-> signed]

\* utils.download_file: a transport failure removes the .part file and leaves
\* local_file alone; otherwise the .part file is renamed onto local_file
download_file(dl, bytes, local_file) ==
    IF dl THEN [exc |-> "none", file |-> bytes]
    ELSE [exc |-> "RequestException", file |-> local_file]

\* GenericMirror._checksum_file: every (sum, sum_type) pair matches the file
_checksum_file(file) == file.intact

\* the attributes of GenericMirror: it defines _checksum_file and no checksum_file
MirrorHasAttr_checksum_file == FALSE

\* mutant of _download_and_checksum: a failed check leaves the file where it is
_download_and_checksum_NoUnlink(m, env, local_file) ==
    LET d == download_file(env.dl, Served(m, env.intact, env.signed), local_file)
    IN  IF d.exc # "none"
        THEN [exc |-> d.exc, ret |-> FALSE, file |-> d.file]
        ELSE [exc |-> "IntegrityCheckError", ret |-> FALSE, file |-> d.file]

\* GenericMirrorManager._download_and_checksum.  env = [dl, intact, signed]:
\* whether the transfer succeeds and what the served bytes are.  The lookup of
\* mirror.checksum_file raises AttributeError inside the try, which sets
\* checksum_success to False.
_download_and_checksum(m, env, local_file) ==
    LET d == download_file(env.dl, Served(m, env.intact, env.signed), local_file)
        checksum_success ==
            IF MirrorHasAttr_checksum_file THEN _checksum_file(d.file) ELSE FALSE
    IN  IF d.exc # "none"
        THEN [exc |-> d.exc, ret |-> FALSE, file |-> d.file]
        ELSE IF ~checksum_success
        THEN [exc |-> "IntegrityCheckError", ret |-> FALSE, file |-> NoFile]
        ELSE [exc |-> "none", ret |-> checksum_success, file |-> d.file]

\* GenericMirror.download_and_verify.  env = [dl, intact, signed, ck, pgp]: ck and
\* pgp say whether _checksum_file / pgp_check run to the end ("ok") or raise
\* ("error"); sidecar says whether the file at _signature_file exists.
download_and_verify(m, env, local_file, sidecar) ==
    LET d == download_file(env.dl, Served(m, env.intact, env.signed), local_file)
        checksum_success == IF env.ck = "error" THEN FALSE ELSE _checksum_file(d.file)
        \* pgp_check opens file_to_verify: the sidecar if there is one
        signature_success ==
            IF signature_file(m)
            THEN sidecar /\ env.pgp = "ok" /\ env.signed
            ELSE env.pgp = "ok" /\ d.file.signed
    IN  IF d.exc # "none"
        THEN [exc |-> d.exc, ret |-> FALSE, file |-> d.file, sidecar |-> sidecar]
        ELSE IF has_signature(m) /\ signature_file(m) /\ ~sidecar
        THEN \* self._signature_file.unlink() of a missing file
             [exc |-> "FileNotFoundError", ret |-> FALSE, file |-> d.file, sidecar |-> FALSE]
        ELSE IF has_signature(m) /\ ~signature_success
        THEN [exc |-> "IntegrityCheckError (Signature)", ret |-> FALSE, file |-> NoFile,
              sidecar |-> IF signature_file(m) THEN FALSE ELSE sidecar]
        ELSE IF ~checksum_success
        THEN [exc |-> "IntegrityCheckError (Checksum)", ret |-> FALSE, file |-> NoFile,
              sidecar |-> IF has_signature(m) /\ signature_file(m) THEN FALSE ELSE sidecar]
        ELSE [exc |-> "none", ret |-> TRUE, file |-> d.file,
              sidecar |-> IF has_signature(m) /\ signature_file(m) THEN FALSE ELSE sidecar]

\* ------------------------------------------- digests published by a mirror
\* the members of SumType whose hash check utils.py defines
SumTypes == {"md5", "sha256"}

\* what a downloaded file can contain
Contents == {"a", "b"}

\* hashlib's hexdigest of the file under one algorithm: lower-case hex
hexdigest(sum_type, content) == [alg |-> sum_type, of |-> content, upper |-> FALSE]

\* str.lower on a published digest
lower(hash) == [hash EXCEPT !.upper = FALSE]

\* the digests a sum file can hold: of either content under either algorithm,
\* written in lower or in upper case
PublishedSums == [alg : SumTypes, of : Contents, upper : BOOLEAN]

\* utils.md5_hash_check and its siblings: hash.lower() == file_hash.hexdigest()
hash_check(sum_type, content, hash) == lower(hash) = hexdigest(sum_type, content)

\* mutant of ChecksumLoop: one matching pair is enough
RECURSIVE ChecksumLoop_AnyPair(_, _, _)
ChecksumLoop_AnyPair(sums, sum_types, content) ==
    IF sums = <<>> \/ sum_types = <<>> THEN FALSE
    ELSE IF hash_check(Head(sum_types), content, Head(sums)) THEN TRUE
    ELSE ChecksumLoop_AnyPair(Tail(sums), Tail(sum_types), content)

\* GenericMirror._checksum_file, pair by pair: zip(self.sums, self.sum_types)
\* stops at the shorter list; the first pair that does not match returns False
RECURSIVE ChecksumLoop(_, _, _)
ChecksumLoop(sums, sum_types, content) ==
    IF sums = <<>> \/ sum_types = <<>> THEN TRUE
    ELSE IF ~hash_check(Head(sum_types), content, Head(sums)) THEN FALSE
    ELSE ChecksumLoop(Tail(sums), Tail(sum_types), content)

\* one (url, sum_type) hit of _determine_sums: fetch_and_parse_sum raises
\* ("error", caught and skipped), parse_hash raises ("raise", not caught), or
\* a digest is read ("sum")
SumFiles ==
    [sum_type : SumTypes, outcome : {"error", "raise"},
     sum : {hexdigest("md5", "a")}]
    \cup [sum_type : SumTypes, outcome : {"sum"}, sum : PublishedSums]

\* the hits of one search strategy, in page order
SumListings == UNION {[1..n -> SumFiles] : n \in 0..MaxSums}

\* one of the two loops of _determine_sums over its hits
RECURSIVE SumsLoop(_, _, _)
SumsLoop(listing, sum_types, sums) ==
    IF listing = <<>>
    THEN [exc |-> "none", sum_types |-> sum_types, sums |-> sums]
    ELSE LET f == Head(listing)
         IN  IF f.outcome = "error"
             THEN SumsLoop(Tail(listing), sum_types, sums)
             ELSE IF f.outcome = "raise"
             THEN [exc |-> "StopIteration", sum_types |-> sum_types, sums |-> sums]
             ELSE SumsLoop(Tail(listing), Append(sum_types, f.sum_type),
                           Append(sums, f.sum))

\* GenericMirror._determine_sums: the links that name an algorithm first, the
\* well-known checksum file names second
_determine_sums(first, second) ==
    LET a == SumsLoop(first, <<>>, <<>>)
        b == SumsLoop(second, a.sum_types, a.sums)
        raise(e) == [exc |-> e, sum_types |-> <<>>, sums |-> <<>>]
    IN  IF a.exc # "none" THEN raise(a.exc)
        ELSE IF a.sum_types # <<>> /\ a.sums # <<>> THEN a
        ELSE IF b.exc # "none" THEN raise(b.exc)
        ELSE IF b.sum_types # <<>> /\ b.sums # <<>> THEN b
        ELSE raise("ValueError: no sums")

\* the message of the exception download_and_verify raises, as its parts;
\* sig_error is str(e) of the exception _signature_check raised, if any
IntegrityCheckError_message(exc, sig_error) ==
    IF exc = "IntegrityCheckError (Signature)"
    THEN <<"Integrity check failed!", "(Signature)">>
         \o (IF sig_error # "" THEN <<": ", sig_error>> ELSE <<>>)
    ELSE IF exc = "IntegrityCheckError (Checksum)"
    THEN <<"Integrity check failed!", "(Checksum)">>
    ELSE <<>>

\* ------------------------------------------------- GenericMirrorManager.py
VARIABLES
    pc,             \* created, initializing, filtering, ranked, downloading, failed
    candidates,     \* the list handed to __init__
    _mirrors,       \* self._mirrors
    mirror_copy,    \* try_for_all_mirrors: the snapshot being iterated
    idx,            \* try_for_all_mirrors: position in mirror_copy
    failed_mirrors, \* try_for_all_mirrors: the (mirror, error) pairs of this pass
    latest_version, \* _ensure_latest_version: the maximum it computed
    version,        \* mirror.version, NoVersion while unassigned
    speed,          \* mirror.speed
    local_file,     \* the file at the install path
    sidecar,        \* whether the file at mirror._signature_file exists
    raised,         \* the exception the last call ended with, for its caller
    calls,          \* calls made on the constructed manager
    oplog,          \* what func did on each mirror of the current pass
    lastOp,         \* the last _download_and_checksum of the latest attempt_download
    self,           \* a Version object under construction or in use
    other,          \* the Version object self is compared with
    result,         \* what the last call on self returned or raised
    args,           \* the arguments of a try_for_all_mirrors call made by the owner
    now,            \* datetime.now(), in ticks
    _download_link_cache    \* WindowsConsumerDownloader._download_link_cache

\* the state of a Version object and of its caller
versionVars == <<self, other, result>>

\* the clock and the class attributes of WindowsConsumerDownloader
downloaderVars == <<now, _download_link_cache>>

\* the state of a manager, of its mirrors and of the install path
managerVars == <<pc, candidates, _mirrors, mirror_copy, idx, failed_mirrors, latest_version,
                 version, speed, local_file, sidecar, raised, calls, oplog, lastOp, args>>

vars == <<pc, candidates, _mirrors, mirror_copy, idx, failed_mirrors, latest_version,
          version, speed, local_file, sidecar, raised, calls, oplog, lastOp,
          self, other, result, args, now, _download_link_cache>>

\* no try_for_all_mirrors call of the owner is running
NoArgs == [func |-> "", check_bool_output |-> FALSE, stop_after_success |-> FALSE]

\* the cache of a class that was just loaded: no sku has an entry
NoLink == [cached |-> FALSE, expires |-> 0, link |-> 0]

\* ret: the bool a call returned; value: the str or the comparisons it returned
NoResult == [op |-> "none", exc |-> "none", arg |-> <<>>, ret |-> FALSE, value |-> <<>>]

NoException == [type |-> "none", func |-> "", errors |-> <<>>]

NoOp == [op |-> "none", m |-> 0, exc |-> "none", downloaded |-> FALSE,
         intact |-> FALSE, signed |-> FALSE]

\* mutant of Remove: the removal is made on the list the manager was given
Remove_FromCandidates(list, x) == SelectSeq(candidates, LAMBDA y : y # x)

\* list.remove(x): without the first occurrence of x
RECURSIVE Remove(_, _)
Remove(list, x) ==
    IF list = <<>> THEN <<>>
    ELSE IF Head(list) = x THEN Tail(list)
         ELSE <<Head(list)>> \o Remove(Tail(list), x)

\* mutant of TryStep: a failure is not recorded in failed_mirrors
TryStep_NoRecord(list, failed, mirror, res, check_bool_output, stop_after_success) ==
    LET error == IF res.exc # "none" THEN res.exc
                 ELSE IF check_bool_output /\ ~res.ret THEN "RuntimeError: non-true output"
                 ELSE "none"
    IN  IF error # "none"
        THEN [_mirrors |-> Remove(list, mirror), failed_mirrors |-> failed, break |-> FALSE]
        ELSE [_mirrors |-> list, failed_mirrors |-> failed, break |-> stop_after_success]

\* mutant of TryStep: a failed mirror stays in the list
TryStep_NoRemove(list, failed, mirror, res, check_bool_output, stop_after_success) ==
    LET error == IF res.exc # "none" THEN res.exc
                 ELSE IF check_bool_output /\ ~res.ret THEN "RuntimeError: non-true output"
                 ELSE "none"
    IN  IF error # "none"
        THEN [_mirrors |-> list,
              failed_mirrors |-> Append(failed, <<mirror, error>>),
              break |-> FALSE]
        ELSE [_mirrors |-> list, failed_mirrors |-> failed, break |-> stop_after_success]

\* mutant of TryStep: the loop goes on after a success
TryStep_NeverStops(list, failed, mirror, res, check_bool_output, stop_after_success) ==
    LET error == IF res.exc # "none" THEN res.exc
                 ELSE IF check_bool_output /\ ~res.ret THEN "RuntimeError: non-true output"
                 ELSE "none"
    IN  IF error # "none"
        THEN [_mirrors |-> Remove(list, mirror),
              failed_mirrors |-> Append(failed, <<mirror, error>>),
              break |-> FALSE]
        ELSE [_mirrors |-> list, failed_mirrors |-> failed, break |-> FALSE]

\* mutant of TryStep: a failure replaces the failures recorded before it
TryStep_KeepsLatestErrorOnly(list, failed, mirror, res, check_bool_output, stop_after_success) ==
    LET error == IF res.exc # "none" THEN res.exc
                 ELSE IF check_bool_output /\ ~res.ret THEN "RuntimeError: non-true output"
                 ELSE "none"
    IN  IF error # "none"
        THEN [_mirrors |-> Remove(list, mirror),
              failed_mirrors |-> <<<<mirror, error>>>>,
              break |-> FALSE]
        ELSE [_mirrors |-> list, failed_mirrors |-> failed, break |-> stop_after_success]

\* mutant of TryStep: the loop is left at the first success, asked for or not
TryStep_AlwaysStopsAfterSuccess(list, failed, mirror, res, check_bool_output, stop_after_success) ==
    LET error == IF res.exc # "none" THEN res.exc
                 ELSE IF check_bool_output /\ ~res.ret THEN "RuntimeError: non-true output"
                 ELSE "none"
    IN  IF error # "none"
        THEN [_mirrors |-> Remove(list, mirror),
              failed_mirrors |-> Append(failed, <<mirror, error>>),
              break |-> FALSE]
        ELSE [_mirrors |-> list, failed_mirrors |-> failed, break |-> TRUE]

\* one iteration of the loop of try_for_all_mirrors on mirror, given what
\* func(mirror) did: res = [exc, ret]
TryStep(list, failed, mirror, res, check_bool_output, stop_after_success) ==
    LET error == IF res.exc # "none" THEN res.exc
                 ELSE IF check_bool_output /\ ~res.ret THEN "RuntimeError: non-true output"
                 ELSE "none"
    IN  IF error # "none"
        THEN [_mirrors |-> Remove(list, mirror),
              failed_mirrors |-> Append(failed, <<mirror, error>>),
              break |-> FALSE]
        ELSE [_mirrors |-> list, failed_mirrors |-> failed, break |-> stop_after_success]

\* mutant of PassEnd: the error reports the last failure only
PassEnd_LastErrorOnly(list, failed, func) ==
    IF list = <<>>
    THEN [type |-> "NoMirrorsError", func |-> func,
          errors |-> IF failed = <<>> THEN <<>> ELSE <<failed[Len(failed)]>>]
    ELSE [type |-> "none", func |-> func, errors |-> <<>>]

\* the end of try_for_all_mirrors: NoMirrorsError when the list is empty
PassEnd(list, failed, func) ==
    IF list = <<>>
    THEN [type |-> "NoMirrorsError", func |-> func, errors |-> failed]
    ELSE [type |-> "none", func |-> func, errors |-> <<>>]

\* mutant of MaxVersion: the version of the first mirror
MaxVersion_First(list, best) == best

\* mutant of MaxVersion: a version no mirror of the list has
MaxVersion_Unattained(list, best) == Version(<<"0">>, <<".">>, 0)

RECURSIVE MaxVersion(_, _)
\* max(mirror.version for mirror in list): the first of the largest
MaxVersion(list, best) ==
    IF list = <<>> THEN best
    ELSE MaxVersion(Tail(list),
             IF VersionGt(version[Head(list)], best) THEN version[Head(list)] ELSE best)

RECURSIVE InsertDesc_Ascending(_, _)
\* mutant of InsertDesc: slowest first
InsertDesc_Ascending(sorted, x) ==
    IF sorted = <<>> THEN <<x>>
    ELSE IF speed[Head(sorted)] <= speed[x]
         THEN <<Head(sorted)>> \o InsertDesc_Ascending(Tail(sorted), x)
         ELSE <<x>> \o sorted

RECURSIVE InsertDesc(_, _)
InsertDesc(sorted, x) ==
    IF sorted = <<>> THEN <<x>>
    ELSE IF speed[Head(sorted)] >= speed[x]
         THEN <<Head(sorted)>> \o InsertDesc(Tail(sorted), x)
         ELSE <<x>> \o sorted

RECURSIVE SortBySpeed(_, _)
\* list.sort(key=lambda m: m.speed, reverse=True): stable, fastest first
SortBySpeed(list, sorted) ==
    IF list = <<>> THEN sorted
    ELSE SortBySpeed(Tail(list), InsertDesc(sorted, Head(list)))

current_mirror == IF Len(_mirrors) > 0 THEN _mirrors[1] ELSE 0

Init ==
    /\ pc = "created"
    /\ candidates = <<>>
    /\ _mirrors = <<>>
    /\ mirror_copy = <<>>
    /\ idx = 1
    /\ failed_mirrors = <<>>
    /\ latest_version = NoVersion
    /\ version = [m \in Mirrors |-> NoVersion]
    /\ speed = [m \in Mirrors |-> 0]
    /\ local_file = OldFile
    /\ sidecar = [m \in Mirrors |-> signature_file(m)]
    /\ raised = NoException
    /\ calls = 0
    /\ oplog = <<>>
    /\ lastOp = NoOp
    /\ self = NoVersion
    /\ other = NoVersion
    /\ result = NoResult
    /\ args = NoArgs
    /\ now = 0
    /\ _download_link_cache = [sku \in Skus |-> NoLink]

\* what the log keeps of one call of func on mirror m
\* what the log keeps of one call of func on mirror m; genuine: the call
\* downloaded bytes that match the digests and, where the mirror has a
\* signature, the signature
LogEntry(m, exc, ret, env) ==
    [m |-> m, exc |-> exc, ret |-> ret,
     genuine |-> env.dl /\ env.intact /\ (has_signature(m) => env.signed)]

NoEnv == [dl |-> FALSE, intact |-> FALSE, signed |-> FALSE]

LastOp(op, m, exc, env) ==
    [op |-> op, m |-> m, exc |-> exc, downloaded |-> env.dl, intact |-> env.intact,
     signed |-> env.signed]

\* GenericMirrorManager(mirrors), up to the first iteration of _initialize_all_mirrors
Construct(n) ==
    /\ pc = "created"
    /\ candidates' = [k \in 1..n |-> k]
    /\ _mirrors' = candidates'
    /\ mirror_copy' = candidates'
    /\ idx' = 1
    /\ failed_mirrors' = <<>>
    /\ oplog' = <<>>
    /\ pc' = "initializing"
    /\ UNCHANGED <<latest_version, version, speed, local_file, sidecar, raised, calls, lastOp>>
    /\ UNCHANGED versionVars
    /\ UNCHANGED <<args, downloaderVars>>

\* _initialize_all_mirrors: one iteration, func = m.initialize()
InitializeStep ==
    /\ pc = "initializing"
    /\ idx <= Len(mirror_copy)
    /\ \E fail \in FailPoints, page \in Pages, sp \in Speeds :
         /\ (fail = "fetch" => page = <<>>)
         /\ (fail # "none" => sp = 1)
         /\ (fail = "sig" => has_signature(mirror_copy[idx]))
         /\ LET m == mirror_copy[idx]
                r == initialize(m, fail, page, sp)
                t == TryStep(_mirrors, failed_mirrors, m, [exc |-> r.exc, ret |-> FALSE],
                             FALSE, FALSE)
            IN  /\ version' = [version EXCEPT ![m] = r.version]
                /\ speed' = [speed EXCEPT ![m] = r.speed]
                /\ _mirrors' = t._mirrors
                /\ failed_mirrors' = t.failed_mirrors
                /\ idx' = IF t.break THEN Len(mirror_copy) + 1 ELSE idx + 1
                /\ oplog' = Append(oplog, LogEntry(m, r.exc, FALSE, NoEnv))
    /\ UNCHANGED <<pc, candidates, mirror_copy, latest_version, local_file, sidecar,
                   raised, calls, lastOp>>
    /\ UNCHANGED versionVars
    /\ UNCHANGED <<args, downloaderVars>>

\* the end of _initialize_all_mirrors and, unless it raises, _ensure_latest_version
\* up to the first iteration of its pass
InitializePassEnd ==
    /\ pc = "initializing"
    /\ idx > Len(mirror_copy)
    /\ raised' = PassEnd(_mirrors, failed_mirrors, "initialize")
    /\ IF raised'.type # "none"
       THEN /\ pc' = "failed"
            /\ UNCHANGED <<latest_version, mirror_copy, idx, failed_mirrors, oplog>>
       ELSE /\ pc' = "filtering"
            /\ latest_version' = MaxVersion(Tail(_mirrors), version[Head(_mirrors)])
            /\ mirror_copy' = _mirrors
            /\ idx' = 1
            /\ failed_mirrors' = <<>>
            /\ oplog' = <<>>
    /\ UNCHANGED <<candidates, _mirrors, version, speed, local_file, sidecar, calls, lastOp>>
    /\ UNCHANGED versionVars
    /\ UNCHANGED <<args, downloaderVars>>

\* _ensure_latest_version: one iteration, func = (m.version == latest_version)
FilterStep ==
    /\ pc = "filtering"
    /\ idx <= Len(mirror_copy)
    /\ LET m == mirror_copy[idx]
           ret == VersionEq(version[m], latest_version)
           t == TryStep(_mirrors, failed_mirrors, m, [exc |-> "none", ret |-> ret],
                        TRUE, FALSE)
       IN  /\ _mirrors' = t._mirrors
           /\ failed_mirrors' = t.failed_mirrors
           /\ idx' = IF t.break THEN Len(mirror_copy) + 1 ELSE idx + 1
           /\ oplog' = Append(oplog, LogEntry(m, "none", ret, NoEnv))
    /\ UNCHANGED <<pc, candidates, mirror_copy, latest_version, version, speed, local_file,
                   sidecar, raised, calls, lastOp>>
    /\ UNCHANGED versionVars
    /\ UNCHANGED <<args, downloaderVars>>

\* the end of _ensure_latest_version and the sort that ends __init__
FilterPassEnd ==
    /\ pc = "filtering"
    /\ idx > Len(mirror_copy)
    /\ raised' = PassEnd(_mirrors, failed_mirrors, "version_eq")
    /\ IF raised'.type # "none"
       THEN pc' = "failed" /\ UNCHANGED _mirrors
       ELSE pc' = "ranked" /\ _mirrors' = SortBySpeed(_mirrors, <<>>)
    /\ UNCHANGED <<candidates, mirror_copy, idx, failed_mirrors, latest_version, version,
                   speed, local_file, sidecar, calls, oplog, lastOp>>
    /\ UNCHANGED versionVars
    /\ UNCHANGED <<args, downloaderVars>>

\* attempt_download(local_file), up to the first iteration of its pass
AttemptDownload ==
    /\ pc = "ranked"
    /\ calls < MaxCalls
    /\ calls' = calls + 1
    /\ pc' = "downloading"
    /\ mirror_copy' = _mirrors
    /\ idx' = 1
    /\ failed_mirrors' = <<>>
    /\ oplog' = <<>>
    /\ raised' = NoException
    /\ lastOp' = NoOp
    /\ UNCHANGED <<candidates, _mirrors, latest_version, version, speed, local_file,
                   sidecar>>
    /\ UNCHANGED versionVars
    /\ UNCHANGED <<args, downloaderVars>>

\* attempt_download: one iteration, func = _download_and_checksum(m, local_file)
DownloadStep ==
    /\ pc = "downloading"
    /\ idx <= Len(mirror_copy)
    /\ \E dl \in BOOLEAN, intact \in BOOLEAN, signed \in BOOLEAN :
         /\ (~dl => ~intact /\ ~signed)
         /\ (signed => has_signature(mirror_copy[idx]))
         /\ LET m == mirror_copy[idx]
                env == [dl |-> dl, intact |-> intact, signed |-> signed]
                r == _download_and_checksum(m, env, local_file)
                t == TryStep(_mirrors, failed_mirrors, m, [exc |-> r.exc, ret |-> r.ret],
                             TRUE, TRUE)
            IN  /\ local_file' = r.file
                /\ _mirrors' = t._mirrors
                /\ failed_mirrors' = t.failed_mirrors
                /\ idx' = IF t.break THEN Len(mirror_copy) + 1 ELSE idx + 1
                /\ oplog' = Append(oplog, LogEntry(m, r.exc, r.ret, env))
                /\ lastOp' = LastOp("_download_and_checksum", m, r.exc, env)
    /\ UNCHANGED <<pc, candidates, mirror_copy, latest_version, version, speed, sidecar,
                   raised, calls>>
    /\ UNCHANGED versionVars
    /\ UNCHANGED <<args, downloaderVars>>

\* the end of attempt_download
DownloadPassEnd ==
    /\ pc = "downloading"
    /\ idx > Len(mirror_copy)
    /\ raised' = PassEnd(_mirrors, failed_mirrors, "_download_and_checksum")
    /\ pc' = "ranked"
    /\ UNCHANGED <<candidates, _mirrors, mirror_copy, idx, failed_mirrors, latest_version,
                   version, speed, local_file, sidecar, calls, oplog, lastOp>>
    /\ UNCHANGED versionVars
    /\ UNCHANGED <<args, downloaderVars>>

\* manager.current_mirror.download_and_verify(local_file), called by the owner
DownloadAndVerify ==
    /\ pc = "ranked"
    /\ calls < MaxCalls
    /\ current_mirror # 0
    /\ calls' = calls + 1
    /\ \E dl \in BOOLEAN, intact \in BOOLEAN, signed \in BOOLEAN,
          ck \in {"ok", "error"}, pgp \in {"ok", "error"} :
         /\ (~dl => ~intact /\ ~signed /\ ck = "ok" /\ pgp = "ok")
         /\ (signed => has_signature(current_mirror))
         /\ (pgp = "error" => has_signature(current_mirror))
         /\ LET m == current_mirror
                env == [dl |-> dl, intact |-> intact, signed |-> signed, ck |-> ck,
                        pgp |-> pgp]
                r == download_and_verify(m, env, local_file, sidecar[m])
            IN  /\ local_file' = r.file
                /\ sidecar' = [sidecar EXCEPT ![m] = r.sidecar]
                /\ raised' = [type |-> r.exc, func |-> "download_and_verify",
                              errors |-> <<>>]
    /\ UNCHANGED <<pc, candidates, _mirrors, mirror_copy, idx, failed_mirrors,
                   latest_version, version, speed, oplog, lastOp>>
    /\ UNCHANGED versionVars
    /\ UNCHANGED <<args, downloaderVars>>

Next ==
    \/ \E n \in 0..NMirrors : Construct(n)
    \/ InitializeStep
    \/ InitializePassEnd
    \/ FilterStep
    \/ FilterPassEnd
    \/ AttemptDownload
    \/ DownloadStep
    \/ DownloadPassEnd
    \/ DownloadAndVerify

Spec == Init /\ [][Next]_vars

\* ------------------------------------- try_for_all_mirrors, called by the owner
\* the states of a manager whose constructor has returned: of the candidates
\* 1..n those of S initialized, at the speeds sp and all at the same version,
\* and the others failed
Constructed ==
    \E n \in 1..NMirrors : \E S \in (SUBSET (1..n)) \ {{}} : \E sp \in [S -> Speeds] :
        LET v == Version(<<"1", ".", "2">>, <<".">>, 0)
            survivors == SelectSeq([k \in 1..n |-> k], LAMBDA m : m \in S)
        IN  /\ pc = "ranked"
            /\ candidates = [k \in 1..n |-> k]
            /\ speed = [m \in Mirrors |-> IF m \in S THEN sp[m] ELSE 0]
            /\ version = [m \in Mirrors |-> IF m \in S THEN v ELSE NoVersion]
            /\ latest_version = v
            /\ _mirrors = SortBySpeed(survivors, <<>>)
            /\ mirror_copy = survivors
            /\ idx = Len(survivors) + 1
            /\ failed_mirrors = <<>>
            /\ oplog = [k \in 1..Len(survivors) |-> LogEntry(survivors[k], "none", TRUE, NoEnv)]
            /\ raised = [type |-> "none", func |-> "version_eq", errors |-> <<>>]
            /\ local_file = OldFile
            /\ sidecar = [m \in Mirrors |-> signature_file(m)]
            /\ calls = 0
            /\ lastOp = NoOp
            /\ args = NoArgs
            /\ self = NoVersion
            /\ other = NoVersion
            /\ result = NoResult
            /\ now = 0
            /\ _download_link_cache = [sku \in Skus |-> NoLink]

\* manager.try_for_all_mirrors(func, (), check_bool_output, stop_after_success),
\* up to the first iteration
TryForAllMirrors ==
    /\ pc = "ranked"
    /\ calls < MaxCalls
    /\ calls' = calls + 1
    /\ \E check_bool_output \in BOOLEAN, stop_after_success \in BOOLEAN :
         args' = [func |-> "func", check_bool_output |-> check_bool_output,
                  stop_after_success |-> stop_after_success]
    /\ pc' = "trying"
    /\ mirror_copy' = _mirrors
    /\ idx' = 1
    /\ failed_mirrors' = <<>>
    /\ oplog' = <<>>
    /\ raised' = NoException
    /\ UNCHANGED <<candidates, _mirrors, latest_version, version, speed, local_file,
                   sidecar, lastOp>>
    /\ UNCHANGED versionVars
    /\ UNCHANGED downloaderVars

\* one iteration: func(mirror) returns a true value, returns a false one, or raises
TryForAllStep ==
    /\ pc = "trying"
    /\ idx <= Len(mirror_copy)
    /\ \E out \in {"true", "false", "raise"} :
         LET m == mirror_copy[idx]
             res == [exc |-> IF out = "raise" THEN "Exception" ELSE "none",
                     ret |-> out = "true"]
             t == TryStep(_mirrors, failed_mirrors, m, res, args.check_bool_output,
                          args.stop_after_success)
         IN  /\ _mirrors' = t._mirrors
             /\ failed_mirrors' = t.failed_mirrors
             /\ idx' = IF t.break THEN Len(mirror_copy) + 1 ELSE idx + 1
             /\ oplog' = Append(oplog, LogEntry(m, res.exc, res.ret, NoEnv))
    /\ UNCHANGED <<pc, candidates, mirror_copy, latest_version, version, speed, local_file,
                   sidecar, raised, calls, lastOp, args>>
    /\ UNCHANGED versionVars
    /\ UNCHANGED downloaderVars

\* the end of the call
TryForAllPassEnd ==
    /\ pc = "trying"
    /\ idx > Len(mirror_copy)
    /\ raised' = PassEnd(_mirrors, failed_mirrors, args.func)
    /\ pc' = "ranked"
    /\ UNCHANGED <<candidates, _mirrors, mirror_copy, idx, failed_mirrors, latest_version,
                   version, speed, local_file, sidecar, calls, oplog, lastOp, args>>
    /\ UNCHANGED versionVars
    /\ UNCHANGED downloaderVars

PassNext ==
    \/ TryForAllMirrors
    \/ TryForAllStep
    \/ TryForAllPassEnd

PassSpec == Constructed /\ [][PassNext]_vars

\* ------------------------------------------------ calls on a single mirror
\* the version strings of the links of a page that match file_regex and
\* version_regex, in page order: any non-empty strings
LinkPages == UNION {[1..n -> VersionStrings \ {<<>>}] : n \in 0..MaxLinks}

\* mirror._determine_version(version_regex) on a fetched page
DetermineVersion ==
    /\ result.op = "none"
    /\ \E page \in LinkPages, m \in Mirrors :
         LET r == _determine_version(page, m)
         IN  result' = [op |-> "_determine_version", exc |-> r.exc, arg |-> page,
                        ret |-> FALSE, value |-> r.value]
    /\ UNCHANGED <<self, other>>
    /\ UNCHANGED managerVars
    /\ UNCHANGED downloaderVars

\* mirror._determine_sums() on a fetched page
DetermineSums ==
    /\ result.op = "none"
    /\ \E first \in SumListings, second \in SumListings :
         LET r == _determine_sums(first, second)
         IN  result' = [op |-> "_determine_sums", exc |-> r.exc, arg |-> <<>>,
                        ret |-> FALSE,
                        value |-> [sum_types |-> r.sum_types, sums |-> r.sums]]
    /\ UNCHANGED <<self, other>>
    /\ UNCHANGED managerVars
    /\ UNCHANGED downloaderVars

\* mirror.download_and_verify(file) on a mirror whose initialize has stored
\* sum_types and sums; the file does not exist before the call
VerifyDownload ==
    /\ result.op = "_determine_sums"
    /\ result.exc = "none"
    /\ \E m \in Mirrors, content \in Contents, dl \in BOOLEAN, signed \in BOOLEAN,
          has_sidecar \in BOOLEAN, ck \in {"ok", "error"}, pgp \in {"ok", "error"} :
         LET sum_types == result.value.sum_types
             sums == result.value.sums
             env == [dl |-> dl, intact |-> ChecksumLoop(sums, sum_types, content),
                     signed |-> signed, ck |-> ck, pgp |-> pgp]
             r == download_and_verify(m, env, NoFile, has_sidecar)
             sig_error == IF pgp = "error" \/ (signature_file(m) /\ ~has_sidecar)
                          THEN "signature check raised" ELSE ""
         IN  result' = [op |-> "download_and_verify", exc |-> r.exc,
                        arg |-> <<content>>, ret |-> r.ret,
                        value |-> [sum_types |-> sum_types, sums |-> sums,
                                   m |-> m, env |-> env, sidecar |-> has_sidecar,
                                   file |-> r.file,
                                   message |-> IntegrityCheckError_message(r.exc, sig_error)]]
    /\ UNCHANGED <<self, other>>
    /\ UNCHANGED managerVars
    /\ UNCHANGED downloaderVars

MirrorNext ==
    \/ DetermineVersion
    \/ DetermineSums
    \/ VerifyDownload

MirrorSpec == Init /\ [][MirrorNext]_vars

\* ------------------------------------------- WindowsConsumerDownload.py
\* the outcomes of the first part of windows_consumer_download (download page,
\* product edition id, session, SKU table): an exception, or the sku_id of the
\* language.  _download_page_cache, _language_skuIDs_cache and
\* _session_authorized decide only whether this part sends requests; they hold
\* no expiry and are not part of the state here.
SkuLookups == Skus \cup {"LookupError", "RuntimeError", "ValueError"}

\* the JSON GetProductDownloadLinksBySku answers at time t: an error, or a
\* link (numbered by its issue time) with DownloadExpirationDatetime in the
\* future
Answers(t) ==
    {[errors |-> TRUE, expires |-> 0, link |-> 0]}
    \cup {[errors |-> FALSE, expires |-> e, link |-> t + 1] : e \in (t + 1)..(t + MaxTtl)}

\* WindowsConsumerDownloader.windows_consumer_download at time t: the link is
\* fetched when `sku_id not in cache or datetime.now() < cache[sku_id]["expires"]`
windows_consumer_download(cache, lookup, t, answer) ==
    IF lookup \notin Skus
    THEN [exc |-> lookup, cache |-> cache, link |-> 0, fetched |-> FALSE]
    ELSE IF ~cache[lookup].cached \/ t < cache[lookup].expires
    THEN IF answer.errors
         THEN [exc |-> "RuntimeError", cache |-> cache, link |-> 0, fetched |-> TRUE]
         ELSE [exc |-> "none",
               cache |-> [cache EXCEPT ![lookup] =
                             [cached |-> TRUE, expires |-> answer.expires,
                              link |-> answer.link]],
               link |-> answer.link, fetched |-> TRUE]
    ELSE [exc |-> "none", cache |-> cache, link |-> cache[lookup].link,
          fetched |-> FALSE]

\* time passes
Tick ==
    /\ now < MaxTime
    /\ now' = now + 1
    /\ UNCHANGED _download_link_cache
    /\ UNCHANGED versionVars
    /\ UNCHANGED managerVars

\* WindowsConsumerDownloader.windows_consumer_download(windows_version, lang)
WindowsConsumerDownload ==
    /\ \E lookup \in SkuLookups, answer \in Answers(now) :
         LET r == windows_consumer_download(_download_link_cache, lookup, now, answer)
             before == IF lookup \in Skus THEN _download_link_cache[lookup] ELSE NoLink
             after == IF lookup \in Skus THEN r.cache[lookup] ELSE NoLink
         IN  /\ _download_link_cache' = r.cache
             /\ result' = [op |-> "windows_consumer_download", exc |-> r.exc,
                           arg |-> <<lookup>>, ret |-> r.fetched,
                           value |-> [at |-> now, link |-> r.link,
                                      before |-> before, after |-> after]]
    /\ UNCHANGED now
    /\ UNCHANGED <<self, other>>
    /\ UNCHANGED managerVars

DownloaderNext ==
    \/ Tick
    \/ WindowsConsumerDownload

DownloaderSpec == Init /\ [][DownloaderNext]_vars

\* --------------------------------------------- callers of Version and updater
\* self = Version(version_string, separator, zero_pad)
NewVersion ==
    /\ result.op = "none"
    /\ \E version_string \in VersionStrings, separator \in Separators, zero_pad \in ZeroPads :
         LET r == Version__init__(version_string, separator, zero_pad)
         IN  /\ self' = IF r.exc = "none" THEN r.value ELSE self
             /\ result' = [op |-> "__init__", exc |-> r.exc,
                           arg |-> <<version_string, separator, zero_pad>>,
                           ret |-> FALSE, value |-> <<>>]
    /\ UNCHANGED other
    /\ UNCHANGED managerVars
    /\ UNCHANGED downloaderVars

\* str(self)
Str ==
    /\ result.op = "__init__"
    /\ result.exc = "none"
    /\ result' = [op |-> "__str__", exc |-> "none", arg |-> <<>>, ret |-> FALSE,
                  value |-> __str__(self)]
    /\ UNCHANGED <<self, other>>
    /\ UNCHANGED managerVars
    /\ UNCHANGED downloaderVars

\* self == other, self < other, ... with other built from another string
Compare ==
    /\ result.op = "__init__"
    /\ result.exc = "none"
    /\ \E version_string \in VersionStrings \ {<<>>} :
         /\ other' = Version(version_string, self.separator, 0)
         /\ result' = [op |-> "compare", exc |-> "none", arg |-> <<>>, ret |-> FALSE,
                       value |-> RichCompare(self, other')]
    /\ UNCHANGED self
    /\ UNCHANGED managerVars
    /\ UNCHANGED downloaderVars

\* updater.check_for_updates() with the local and latest versions it found
CheckForUpdates ==
    /\ result.op = "none"
    /\ \E local \in VersionStrings, latest \in VersionStrings \ {<<>>} :
         LET old_version == IF local = <<>> THEN <<>> ELSE _str_to_version(local)
             new_version == _str_to_version(latest)
             r == check_for_updates(old_version, new_version)
         IN  result' = [op |-> "check_for_updates", exc |-> r.exc,
                        arg |-> <<old_version, new_version>>, ret |-> r.value,
                        value |-> <<>>]
    /\ UNCHANGED <<self, other>>
    /\ UNCHANGED managerVars
    /\ UNCHANGED downloaderVars

\* updater.install_latest_version() in a folder where old_file is found (or
\* not) and a .old file exists (or not)
InstallLatestVersion ==
    /\ result.op = "none"
    /\ \E has_version \in BOOLEAN, backup \in BOOLEAN, link \in BOOLEAN,
          dl \in BOOLEAN, integrity \in {"true", "false", "raise"} :
         \E old_file \in LocalFiles(has_version) :
            LET fs == FsBefore(old_file, backup)
                r == install_latest_version(has_version, old_file, fs, link, dl,
                                            integrity)
            IN  result' = [op |-> "install_latest_version", exc |-> r.exc,
                           arg |-> <<old_file, integrity>>, ret |-> FALSE,
                           value |-> [has_version |-> has_version, before |-> fs,
                                      link |-> link, dl |-> dl, fs |-> r.fs]]
    /\ UNCHANGED <<self, other>>
    /\ UNCHANGED managerVars
    /\ UNCHANGED downloaderVars

VersionNext ==
    \/ NewVersion
    \/ Str
    \/ Compare
    \/ CheckForUpdates
    \/ InstallLatestVersion

VersionSpec == Init /\ [][VersionNext]_vars

\* ---------------------------------------------------------------- properties
Range(list) == {list[k] : k \in 1..Len(list)}

\* initialize() ran to its end on m: speed is the last field it assigns
Initialized(m) == speed[m] # 0

\* func failed on the mirror of this log entry
Failed(e) == e.exc # "none" \/ ~e.ret

\* the error try_for_all_mirrors owes to a failed log entry
ErrOf(e) == IF e.exc # "none" THEN e.exc ELSE "RuntimeError: non-true output"

\* an attempt_download call has returned or raised
AttemptReturned == pc = "ranked" /\ raised.func = "_download_and_checksum"

Genuine == {k \in 1..Len(oplog) : oplog[k].genuine}

FirstGenuine == CHOOSE k \in Genuine : \A j \in Genuine : k <= j

\* C1: attempt_download tries the mirrors fastest first and ends at the first
\* one whose download is genuine: on return the install path holds that
\* mirror's file and every mirror that failed before it is out of the list.
C1_EndsAtFirstGenuineMirror ==
    AttemptReturned =>
        /\ \A j, k \in 1..Len(oplog) :
               j < k => speed[oplog[j].m] >= speed[oplog[k].m]
        /\ \A k \in 1..Len(oplog) : Failed(oplog[k]) => oplog[k].m \notin Range(_mirrors)
        /\ Genuine # {} =>
               /\ raised.type = "none"
               /\ Len(oplog) = FirstGenuine
               /\ local_file.exists
               /\ local_file.src = oplog[FirstGenuine].m

\* C2 as claimed: every mirror left in a constructed manager's list has the same
\* version, the maximum of the versions observed on all candidates, dropped ones
\* included.
C2_EqualToMaxOverAllCandidates ==
    pc \in {"ranked", "downloading"} =>
        \A m \in Range(_mirrors) :
            /\ \A o \in Range(_mirrors) : _compare(version[m], version[o]) = 0
            /\ \A c \in Range(candidates) :
                   version[c] # NoVersion => _compare(version[c], version[m]) <= 0

\* C2 as amended: every mirror left in a constructed manager's list has the same
\* version, the maximum of the versions of the candidates whose initialize()
\* succeeded.
C2_EqualToMaxOverInitialized ==
    pc \in {"ranked", "downloading"} =>
        \A m \in Range(_mirrors) :
            /\ \A o \in Range(_mirrors) : _compare(version[m], version[o]) = 0
            /\ \A c \in Range(candidates) :
                   Initialized(c) => _compare(version[c], version[m]) <= 0

\* two survivors and a candidate that saw a newer version before its
\* initialize failed
C2_Witness ==
    /\ pc = "ranked"
    /\ Len(_mirrors) >= 2
    /\ \E c \in Range(candidates), m \in Range(_mirrors) :
           ~Initialized(c) /\ version[c] # NoVersion
           /\ _compare(version[c], version[m]) > 0

\* C3: when a per-mirror download ends in an integrity failure (a mismatch, or
\* an error raised while checking) no file is at the install path.
C3_NoFileAfterIntegrityFailure ==
    /\ (/\ raised.func = "download_and_verify"
        /\ raised.type \in {"IntegrityCheckError (Checksum)",
                            "IntegrityCheckError (Signature)", "FileNotFoundError"})
           => ~local_file.exists
    /\ (/\ lastOp.op = "_download_and_checksum"
        /\ lastOp.downloaded
        /\ lastOp.exc # "none"
        /\ pc = "downloading")
           => ~local_file.exists

\* C4: the previously installed copy is replaced or deleted only by bytes that
\* passed verification.
C4_OldCopyKeptUntilVerified ==
    local_file # OldFile =>
        /\ local_file.exists
        /\ local_file.intact
        /\ has_signature(local_file.src) => local_file.signed

C6_AllFailRaisesWithEveryError ==
    (/\ pc \notin {"created", "initializing"}
     /\ \A c \in Range(candidates) : ~Initialized(c))
        => /\ pc = "failed"
           /\ raised.type = "NoMirrorsError"
           /\ Len(raised.errors) = Len(candidates)
           /\ Len(oplog) = Len(candidates)
           /\ \A k \in 1..Len(candidates) :
                  /\ oplog[k].m = candidates[k]
                  /\ oplog[k].exc # "none"
                  /\ raised.errors[k] = <<candidates[k], oplog[k].exc>>

\* all of several candidates failed, for different reasons
C6_Witness ==
    /\ pc = "failed"
    /\ Len(candidates) >= 2
    /\ raised.type = "NoMirrorsError"
    /\ \E j, k \in 1..Len(raised.errors) : raised.errors[j][2] # raised.errors[k][2]

\* C7: if every mirror of the list fails in one attempt_download call, the call
\* raises NoMirrorsError, each mirror was attempted exactly once, and the list
\* is empty.
C7_ExhaustionAfterOneTryEach ==
    (AttemptReturned /\ \A k \in 1..Len(oplog) : Failed(oplog[k]))
        => /\ raised.type = "NoMirrorsError"
           /\ _mirrors = <<>>
           /\ [k \in 1..Len(oplog) |-> oplog[k].m] = mirror_copy

C7_Witness ==
    /\ AttemptReturned
    /\ Len(mirror_copy) >= 2
    /\ \A k \in 1..Len(oplog) : Failed(oplog[k])
    /\ raised.type = "NoMirrorsError"

\* C8 as claimed: a NoMirrorsError carries one error for each mirror removed at
\* any stage since the manager was given its candidates.
C8_ErrorsOfEveryRemovedMirror ==
    raised.type = "NoMirrorsError" =>
        /\ {raised.errors[k][1] : k \in 1..Len(raised.errors)}
               = Range(candidates) \ Range(_mirrors)
        /\ Len(raised.errors) = Cardinality(Range(candidates) \ Range(_mirrors))

\* C8 as amended: a NoMirrorsError carries one error for each mirror that was in
\* the list when the pass that raised it began, the error func raised on that
\* mirror in that pass, in list order.
C8_ErrorsOfTheRaisingPass ==
    raised.type = "NoMirrorsError" =>
        /\ Len(raised.errors) = Len(mirror_copy)
        /\ Len(oplog) = Len(mirror_copy)
        /\ \A k \in 1..Len(mirror_copy) :
               raised.errors[k] = <<mirror_copy[k], ErrOf(oplog[k])>>

\* an attempt_download call exhausted a list of several mirrors after other
\* candidates had been removed during construction
C8_Witness ==
    /\ AttemptReturned
    /\ raised.type = "NoMirrorsError"
    /\ Len(raised.errors) >= 2
    /\ Len(candidates) > Len(raised.errors)

\* C9: the version filter keeps exactly the initialized mirrors whose version
\* compares equal to the maximum among the initialized ones.
C9_FilterKeepsExactlyTheLatest ==
    (pc = "ranked" /\ calls = 0) =>
        Range(_mirrors) =
            {m \in Range(candidates) :
                /\ Initialized(m)
                /\ \A c \in Range(candidates) :
                       Initialized(c) => _compare(version[c], version[m]) <= 0}

\* versions 1.0, 1.2 and 1.02: exactly the two that compare equal remain
C9_Witness ==
    /\ pc = "ranked"
    /\ calls = 0
    /\ Len(_mirrors) = 2
    /\ version[_mirrors[1]].raw # version[_mirrors[2]].raw
    /\ \E c \in Range(candidates) :
           /\ Initialized(c)
           /\ c \notin Range(_mirrors)
           /\ version[c].raw = <<"1", ".", "0">>

\* C10: the list of a constructed manager is in non-increasing speed order and
\* current_mirror is a mirror of the list that no other mirror of it outruns
\* (none exactly when the list is empty).
C10_ListOrderedBySpeed ==
    pc \in {"ranked", "downloading"} =>
        /\ \A j, k \in 1..Len(_mirrors) :
               j < k => speed[_mirrors[j]] >= speed[_mirrors[k]]
        /\ current_mirror = 0 <=> _mirrors = <<>>
        /\ current_mirror # 0 =>
               /\ current_mirror \in Range(_mirrors)
               /\ \A m \in Range(_mirrors) : speed[current_mirror] >= speed[m]

\* the sort had to move a faster mirror in front of a slower one, and a failed
\* download has since removed a mirror
C10_Witness ==
    /\ pc = "downloading"
    /\ Len(_mirrors) >= 2
    /\ Len(_mirrors) < Len(mirror_copy)
    /\ \E j, k \in 1..Len(_mirrors) :
           j < k /\ _mirrors[j] > _mirrors[k]
           /\ speed[_mirrors[j]] > speed[_mirrors[k]]

\* C11: from its construction on, no operation adds a mirror to the list of a
\* manager: each step leaves the list a sublist of what it was, so a mirror
\* that was removed is never in the list again.
C11_ListOnlyShrinks ==
    [][pc # "created" =>
          /\ Range(_mirrors') \subseteq Range(_mirrors)
          /\ Len(_mirrors') <= Len(_mirrors)]_vars

\* the list lost mirrors during construction and again during a download pass
C11_Witness ==
    /\ pc = "downloading"
    /\ Len(_mirrors) < Len(mirror_copy)
    /\ Len(mirror_copy) < Len(candidates)
    /\ _mirrors # <<>>

\* the Version objects of every non-empty string, per separator
VersionsSplitOnDot == {Version(str, <<".">>, 0) : str \in VersionStrings \ {<<>>}}

VersionsSplitInChars == {Version(str, <<>>, 0) : str \in VersionStrings \ {<<>>}}

VersionsLike(v) == IF v.separator = <<>> THEN VersionsSplitInChars ELSE VersionsSplitOnDot

\* C12: the comparison of Version is a total preorder: of a < b, a == b and
\* a > b exactly one holds, compare(a, b) = -compare(b, a), and a < b with
\* b < c gives a < c (likewise for <=), for every non-empty a, b and c.
C12_TotalPreorder ==
    result.op = "compare" =>
        /\ Cardinality({f \in {"lt", "eq", "gt"} : result.value[f]}) = 1
        /\ result.value.le = (result.value.lt \/ result.value.eq)
        /\ result.value.ge = (result.value.gt \/ result.value.eq)
        /\ _compare(self, other) = 0 - _compare(other, self)
        /\ result.value.gt = RichCompare(other, self).lt
        /\ result.value.eq = RichCompare(other, self).eq
        /\ \A c \in VersionsLike(self) :
               LET bc == _compare(other, c)
               IN  /\ (result.value.lt /\ bc < 0) => _compare(self, c) < 0
                   /\ (result.value.le /\ bc <= 0) => _compare(self, c) <= 0

\* a chain a < b < c in which a starts with a number, b with letters, and a
\* and b differ in more than the first token
C12_Witness ==
    /\ result.op = "compare"
    /\ result.value.lt
    /\ self.parsed[1] # <<>> /\ self.parsed[1][1].int
    /\ other.parsed[1] # <<>> /\ ~other.parsed[1][1].int
    /\ \E c \in VersionsLike(self) :
           /\ RichCompare(other, c).lt
           /\ Len(c.parsed) > Len(other.parsed)

\* the tokens of a Version, component after component, each component closed
\* by an end marker so that positions of different components never meet
EndOfComponent == [int |-> FALSE, n |-> 0 - 1, s |-> <<>>]

RECURSIVE TokensOf(_)
TokensOf(parsed) ==
    IF parsed = <<>> THEN <<>>
    ELSE Head(parsed) \o <<EndOfComponent>> \o TokensOf(Tail(parsed))

\* the first position at which both Versions have a token and the two differ
Clash(a, b) ==
    LET t == TokensOf(a.parsed)
        u == TokensOf(b.parsed)
        D == {k \in 1..Min2(Len(t), Len(u)) :
                 /\ t[k] # u[k]
                 /\ t[k] # EndOfComponent
                 /\ u[k] # EndOfComponent
                 /\ \A j \in 1..(k - 1) : t[j] = u[j]}
    IN  IF D = {} THEN [found |-> FALSE, left |-> EndOfComponent, right |-> EndOfComponent]
        ELSE LET k == CHOOSE x \in D : TRUE
             IN  [found |-> TRUE, left |-> t[k], right |-> u[k]]

\* x sorts before y by code point, character after character; a proper prefix first
LexLess(x, y) ==
    \E k \in 1..(Len(y)) :
        /\ \A j \in 1..(k - 1) : j <= Len(x) /\ x[j] = y[j]
        /\ \/ k = Len(x) + 1
           \/ k <= Len(x) /\ Ord(x[k]) < Ord(y[k])

\* C13: where the first differing tokens of two Versions have different types,
\* the one with the integer token is the lesser and the one with the string
\* token the greater, whatever the values; two integer tokens decide by
\* number, two string tokens by case-sensitive lexicographic order.
C13_TokenOrder ==
    (result.op = "compare" /\ Clash(self, other).found) =>
        LET l == Clash(self, other).left
            r == Clash(self, other).right
        IN  /\ (l.int /\ ~r.int) => (result.value.lt /\ RichCompare(other, self).gt)
            /\ (~l.int /\ r.int) => (result.value.gt /\ RichCompare(other, self).lt)
            /\ (l.int /\ r.int) => (result.value.lt <=> l.n < r.n)
            /\ (l.int /\ r.int) => (result.value.gt <=> l.n > r.n)
            /\ (~l.int /\ ~r.int) => (result.value.lt <=> LexLess(l.s, r.s))
            /\ (~l.int /\ ~r.int) => (result.value.gt <=> LexLess(r.s, l.s))

\* a string token met a larger-looking integer token after an equal first token
C13_Witness ==
    /\ result.op = "compare"
    /\ Clash(self, other).found
    /\ ~Clash(self, other).left.int
    /\ Clash(self, other).right.int
    /\ Clash(self, other).right.n > 9
    /\ TokensOf(self.parsed)[1] = TokensOf(other.parsed)[1]
    /\ result.value.gt

\* two string tokens that differ in case met: "B" sorts before "a"
C13_WitnessCase ==
    /\ result.op = "compare"
    /\ Clash(self, other).found
    /\ Clash(self, other).left.s = <<"B">>
    /\ Clash(self, other).right.s = <<"a">>
    /\ result.value.lt

RECURSIVE StripZeros(_, _)
\* a component without the leading zeros of its digit runs (one digit of a
\* run always stays); prev: the previous character was a digit of the same run
StripZeros(rest, prev) ==
    IF rest = <<>> THEN <<>>
    ELSE IF Head(rest) = "0" /\ ~prev /\ Len(rest) >= 2 /\ IsDigit(rest[2])
    THEN StripZeros(Tail(rest), FALSE)
    ELSE <<Head(rest)>> \o StripZeros(Tail(rest), IsDigit(Head(rest)))

SameUpToLeadingZeros(a, b) ==
    /\ Len(a.components) = Len(b.components)
    /\ \A k \in 1..Len(a.components) :
           StripZeros(a.components[k], FALSE) = StripZeros(b.components[k], FALSE)

\* C14: two Versions whose strings differ only by leading zeros of numeric
\* tokens compare equal, whichever of the two is on the left.
C14_LeadingZerosInsignificant ==
    (result.op = "compare" /\ SameUpToLeadingZeros(self, other)) =>
        /\ result.value.eq
        /\ ~result.value.lt /\ ~result.value.gt
        /\ RichCompare(other, self).eq

\* two different strings of several components that differ by a leading zero
C14_Witness ==
    /\ result.op = "compare"
    /\ self.raw # other.raw
    /\ Len(self.components) >= 2
    /\ SameUpToLeadingZeros(self, other)
    /\ result.value.eq

\* x is a strict prefix of y
StrictPrefix(x, y) == Len(x) < Len(y) /\ SubSeq(y, 1, Len(x)) = x

\* the first component at which the two Versions differ, 0 if none
FirstDifferentComponent(a, b) ==
    LET D == {k \in 1..Min2(Len(a.parsed), Len(b.parsed)) :
                 /\ a.parsed[k] # b.parsed[k]
                 /\ \A j \in 1..(k - 1) : a.parsed[j] = b.parsed[j]}
    IN  IF D = {} THEN 0 ELSE CHOOSE k \in D : TRUE

\* C15: a Version whose component list is a strict prefix of another's is
\* strictly less, and where the first differing components are such that the
\* tokens of one are a strict prefix of the tokens of the other, the shorter
\* one is less: a component without tokens is less than any with a token.
C15_StrictPrefixIsLess ==
    result.op = "compare" =>
        LET k == FirstDifferentComponent(self, other)
        IN  /\ StrictPrefix(self.parsed, other.parsed) =>
                   (result.value.lt /\ RichCompare(other, self).gt)
            /\ (k # 0 /\ StrictPrefix(self.parsed[k], other.parsed[k])) =>
                   (result.value.lt /\ RichCompare(other, self).gt)
            /\ (k # 0 /\ StrictPrefix(other.parsed[k], self.parsed[k])) =>
                   (result.value.gt /\ RichCompare(other, self).lt)
            /\ (k # 0 /\ self.parsed[k] = <<>>) => result.value.lt

\* "1" against "1.1": the component list of self is a strict prefix
C15_Witness ==
    /\ result.op = "compare"
    /\ self.separator = <<".">>
    /\ StrictPrefix(self.parsed, other.parsed)
    /\ other.parsed[Len(other.parsed)] # <<>>
    /\ self.parsed[1] # <<>>
    /\ result.value.lt

\* after an equal first component, a component without tokens on the left
\* and one with tokens on the right
C15_WitnessEmptyComponent ==
    /\ result.op = "compare"
    /\ FirstDifferentComponent(self, other) = 2
    /\ self.parsed[2] = <<>>
    /\ result.value.lt

\* after an equal first token, tokens left over on the right
C15_WitnessTokenPrefix ==
    /\ result.op = "compare"
    /\ FirstDifferentComponent(self, other) = 1
    /\ self.parsed[1] # <<>>
    /\ StrictPrefix(self.parsed[1], other.parsed[1])
    /\ result.value.lt

\* C16: constructing a Version raises exactly when the string is empty, and
\* then no Version is produced; every non-empty string, whatever it holds,
\* yields a Version of that string with at least one component.
C16_ParseFailsExactlyOnEmpty ==
    result.op = "__init__" =>
        /\ result.exc # "none" <=> result.arg[1] = <<>>
        /\ result.exc # "none" => self = NoVersion
        /\ result.exc = "none" =>
               /\ self # NoVersion
               /\ self.raw = result.arg[1]
               /\ self.separator = result.arg[2]
               /\ self.zero_pad = result.arg[3]
               /\ Len(self.components) >= 1
               /\ Len(self.parsed) = Len(self.components)

\* the empty string was rejected
C16_Witness ==
    /\ result.op = "__init__"
    /\ result.arg[1] = <<>>
    /\ result.exc = "ValueError"
    /\ self = NoVersion

\* a string of separators only was accepted: no component has a token
C16_WitnessMalformed ==
    /\ result.op = "__init__"
    /\ result.exc = "none"
    /\ Len(self.raw) = MaxLen
    /\ \A k \in 1..Len(self.parsed) : self.parsed[k] = <<>>

\* the rendering of one parsed component: integer tokens left-padded with
\* zeros to zero_pad when it is positive, string tokens as they are
RenderTokens(tokens, zero_pad) ==
    Join(<<>>, [j \in 1..Len(tokens) |-> FormatItem(tokens[j], zero_pad)])

\* C17: str() of a Version joins its components with the separator, every
\* integer token left-padded with zeros to zero_pad when zero_pad > 0 and every
\* string token as it is (stated for components made of digits and letters only).
C17_RenderPadsIntegerTokens ==
    (/\ result.op = "__str__"
     /\ self.zero_pad > 0
     /\ \A k \in 1..Len(self.components) : \A j \in 1..Len(self.components[k]) :
            CharClass(self.components[k][j]) # "o") =>
        result.value =
            Join(self.separator,
                 [k \in 1..Len(self.parsed) |-> RenderTokens(self.parsed[k], self.zero_pad)])

\* new is greater than old, component by component from the most significant
\* one, the components read as decimal numbers
NumericallyGreater(old, new) ==
    \E k \in 1..Min2(Len(old), Len(new)) :
        /\ IntBase(new[k], 10, 0) > IntBase(old[k], 10, 0)
        /\ \A j \in 1..(k - 1) : IntBase(new[j], 10, 0) = IntBase(old[j], 10, 0)

\* C18: for two versions of as many decimal components each, the updater
\* reports an update exactly when the latest one is numerically greater than
\* the local one, the most significant component first; never when it is lower
\* or equal.
C18_UpdateIffNewIsGreater ==
    (/\ result.op = "check_for_updates"
     /\ result.arg[1] # <<>>
     /\ Len(result.arg[1]) = Len(result.arg[2])
     /\ \A k \in 1..Len(result.arg[1]) :
            IsInt(result.arg[1][k], 10) /\ IsInt(result.arg[2][k], 10)) =>
        /\ result.exc = "none"
        /\ result.ret <=> NumericallyGreater(result.arg[1], result.arg[2])

\* the steps from one phase of a manager to another
PhaseOrder ==
    {<<"created", "initializing">>, <<"initializing", "filtering">>,
     <<"initializing", "failed">>, <<"filtering", "ranked">>, <<"filtering", "failed">>,
     <<"ranked", "downloading">>, <<"downloading", "ranked">>}

\* C19: the phases of a manager come in the order initialize-all, version
\* filter, sort by speed, downloads: the filter starts only when initialize has
\* been called on every candidate and has returned or raised, the list is
\* ranked only when the filter has seen every survivor, and nothing is
\* downloaded or written before the list is ranked.
C19_PhasesInOrder ==
    [][/\ pc' # pc => <<pc, pc'>> \in PhaseOrder
       /\ (pc = "initializing" /\ pc' # pc) =>
              /\ Len(oplog) = Len(candidates)
              /\ \A k \in 1..Len(candidates) : oplog[k].m = candidates[k]
       /\ (pc = "filtering" /\ pc' # pc) =>
              /\ Len(oplog) = Len(mirror_copy)
              /\ \A m \in Range(mirror_copy) : Initialized(m)
       /\ (pc = "filtering" /\ pc' = "ranked") =>
              \A j, k \in 1..Len(_mirrors') :
                  j < k => speed[_mirrors'[j]] >= speed[_mirrors'[k]]
       /\ (local_file' # local_file \/ sidecar' # sidecar \/ lastOp' # lastOp) =>
              pc \in {"ranked", "downloading"}]_vars

\* a download ran on the only survivor of three candidates, of which one had
\* failed to initialize and one had been filtered out
C19_Witness ==
    /\ pc = "downloading"
    /\ lastOp.op = "_download_and_checksum"
    /\ Len(candidates) = NMirrors
    /\ Len(mirror_copy) = 1
    /\ \E c \in Range(candidates) : ~Initialized(c)
    /\ \E c \in Range(candidates) : Initialized(c) /\ c \notin Range(mirror_copy)

\* the downloads of the current attempt_download call that were reported good
Succeeded == {k \in 1..Len(oplog) : ~Failed(oplog[k])}

\* C20: within one attempt_download call the downloads run one at a time, one
\* per mirror in list order; none is started after one was reported good; and
\* the downloads started are the failed ones plus at most one good one.
C20_SingleFlightDownloads ==
    (pc = "downloading" \/ AttemptReturned) =>
        /\ Len(oplog) <= Len(mirror_copy)
        /\ \A k \in 1..Len(oplog) : oplog[k].m = mirror_copy[k]
        /\ pc = "downloading" => (idx = Len(oplog) + 1 \/ idx = Len(mirror_copy) + 1)
        /\ Cardinality(Succeeded) <= 1
        /\ \A k \in Succeeded : k = Len(oplog)
        /\ Len(oplog) = Len(failed_mirrors) + Cardinality(Succeeded)
        /\ \A k \in Succeeded : local_file.exists /\ local_file.src = oplog[k].m

\* a second download was started after the first one had failed
C20_Witness ==
    /\ pc = "downloading"
    /\ Len(oplog) >= 2
    /\ Len(failed_mirrors) = Len(oplog)
    /\ oplog[1].exc = "IntegrityCheckError"
    /\ oplog[2].exc = "RequestException"

\* a try_for_all_mirrors call of the owner is running or has ended
OwnerPass == pc = "trying" \/ (pc = "ranked" /\ raised.func = "func")

\* func failed on the mirror of this log entry, under the flags of the call
FailedUnder(e) == e.exc # "none" \/ (args.check_bool_output /\ ~e.ret)

\* the positions of the snapshot after the first success of the pass
AfterFirstSuccess ==
    LET G == {k \in 1..Len(oplog) : ~FailedUnder(oplog[k])}
    IN  IF G = {} THEN {}
        ELSE {k \in 1..Len(mirror_copy) : \A g \in G : k > g}

\* C21: in a pass with stop_after_success, once func has succeeded on a mirror
\* no later mirror of the snapshot is invoked or removed: the later mirrors
\* are in the list, in the order they had, and the pass is over.
C21_LaterMirrorsUntouched ==
    (OwnerPass /\ args.stop_after_success /\ AfterFirstSuccess # {}) =>
        LET later == {mirror_copy[k] : k \in AfterFirstSuccess}
        IN  /\ \A k \in 1..Len(oplog) : oplog[k].m \notin later
            /\ \A k \in 1..Len(failed_mirrors) : failed_mirrors[k][1] \notin later
            /\ SelectSeq(_mirrors, LAMBDA m : m \in later)
                   = SelectSeq(mirror_copy, LAMBDA m : m \in later)
            /\ pc = "trying" => idx > Len(mirror_copy)

\* of three mirrors the first failed, the second succeeded, the third was left
\* alone
C21_Witness ==
    /\ pc = "ranked"
    /\ raised.func = "func"
    /\ args.stop_after_success
    /\ Len(mirror_copy) = NMirrors
    /\ Len(oplog) = 2
    /\ FailedUnder(oplog[1])
    /\ ~FailedUnder(oplog[2])
    /\ _mirrors = SubSeq(mirror_copy, 2, NMirrors)

\* C22: a pass without stop_after_success invokes func once on every mirror
\* of the snapshot, in order, whatever failed before; every failing mirror is
\* removed with its error recorded, the others stay; and the call raises
\* (NoMirrorsError, with the recorded errors) only if the list ends empty.
C22_EveryMirrorInvokedOnce ==
    (pc = "ranked" /\ raised.func = "func" /\ ~args.stop_after_success) =>
        LET bad == {k \in 1..Len(oplog) : FailedUnder(oplog[k])}
        IN  /\ [k \in 1..Len(oplog) |-> oplog[k].m] = mirror_copy
            /\ _mirrors = SelectSeq(mirror_copy,
                               LAMBDA m : \A k \in bad : oplog[k].m # m)
            /\ Len(failed_mirrors) = Cardinality(bad)
            /\ \A k \in bad :
                   \E j \in 1..Len(failed_mirrors) :
                       /\ failed_mirrors[j][1] = oplog[k].m
                       /\ failed_mirrors[j][2] = ErrOf(oplog[k])
            /\ raised.type # "none" <=> _mirrors = <<>>
            /\ raised.type # "none" =>
                   (raised.type = "NoMirrorsError" /\ raised.errors = failed_mirrors)

\* the first two of three mirrors failed, one by raising and one by a false
\* output, the third was still invoked and the call returned
C22_Witness ==
    /\ pc = "ranked"
    /\ raised.func = "func"
    /\ ~args.stop_after_success
    /\ args.check_bool_output
    /\ Len(mirror_copy) = NMirrors
    /\ Len(oplog) = NMirrors
    /\ oplog[1].exc # "none"
    /\ oplog[2].exc = "none" /\ ~oplog[2].ret
    /\ ~FailedUnder(oplog[3])
    /\ raised.type = "none"
    /\ Len(_mirrors) = 1

\* C23: version discovery returns the maximum of the versions of the matching
\* links whenever there is one; the sentinel it starts from is strictly below
\* every version a link can carry, so it raises only when no link matched.
C23_MaxOfMatchingLinks ==
    result.op = "_determine_version" =>
        LET page == result.arg
            seen == {Version(page[k], <<".">>, 0) : k \in 1..Len(page)}
        IN  /\ \A v \in seen : _compare(Version(<<"0">>, <<".">>, 0), v) < 0
            /\ result.exc # "none" <=> page = <<>>
            /\ page # <<>> =>
                   /\ \E v \in seen : _compare(v, result.value) = 0
                   /\ \A v \in seen : _compare(v, result.value) <= 0


\* the pairs of the mirror that do not match the downloaded content
Mismatching(sum_types, sums, content) ==
    {i \in 1..Len(sum_types) : lower(sums[i]) # hexdigest(sum_types[i], content)}

\* C24: when _determine_sums returns, the algorithm list and the digest list are
\* non-empty and of one length; download_and_verify returns True only if the
\* downloaded file's digest under every listed algorithm is the digest listed at
\* the same index, and one pair that does not match makes the call fail
C24_EveryPairMustMatch ==
    /\ result.op = "_determine_sums" /\ result.exc = "none" =>
           /\ result.value.sum_types # <<>>
           /\ Len(result.value.sum_types) = Len(result.value.sums)
    /\ result.op = "download_and_verify" =>
           LET bad == Mismatching(result.value.sum_types, result.value.sums,
                                  result.arg[1])
           IN  /\ Len(result.value.sum_types) = Len(result.value.sums)
               /\ result.exc = "none" => result.ret /\ bad = {}
               /\ bad # {} => ~result.ret /\ result.exc # "none"

\* C24 witness: the first pair matches the file, the second does not, and the
\* call fails on the checksum
C24_Witness ==
    /\ result.op = "download_and_verify"
    /\ Mismatching(result.value.sum_types, result.value.sums, result.arg[1]) = {2}
    /\ result.value.env.dl
    /\ result.value.env.ck = "ok"
    /\ result.exc = "IntegrityCheckError (Checksum)"

\* C24 witness: two pairs under different algorithms, one published in upper
\* case, both match, and the call returns True
C24_WitnessSuccess ==
    /\ result.op = "download_and_verify"
    /\ Len(result.value.sum_types) = 2
    /\ result.value.sum_types[1] # result.value.sum_types[2]
    /\ result.value.sums[1].upper
    /\ result.exc = "none"
    /\ result.ret

\* what download_and_verify's own checks found on the downloaded file
SignatureFailed(v) ==
    /\ has_signature(v.m)
    /\ ~(IF signature_file(v.m)
         THEN v.sidecar /\ v.env.pgp = "ok" /\ v.env.signed
         ELSE v.env.pgp = "ok" /\ v.env.signed)

\* C25: when download_and_verify has downloaded the file and its signature or
\* checksum check fails, the file is deleted, IntegrityCheckError is raised, and
\* its message says which of the two checks failed and, for a checksum failure,
\* names an algorithm whose digest did not match (stated for calls that find
\* the signature file in place, if the mirror uses one)
C25_FailureReasonPreserved ==
    /\ result.op = "download_and_verify"
    /\ result.value.env.dl
    /\ signature_file(result.value.m) => result.value.sidecar
    =>
        LET v == result.value
            bad == Mismatching(v.sum_types, v.sums, result.arg[1])
            parts == {v.message[k] : k \in 1..Len(v.message)}
        IN  /\ SignatureFailed(v) =>
                /\ result.exc = "IntegrityCheckError (Signature)"
                /\ v.file = NoFile
                /\ "(Signature)" \in parts
            /\ ~SignatureFailed(v) /\ bad # {} =>
                /\ result.exc = "IntegrityCheckError (Checksum)"
                /\ v.file = NoFile
                /\ "(Checksum)" \in parts
                /\ \E i \in bad : v.sum_types[i] \in parts

\* an install_latest_version call that downloaded the file and then ran
\* check_integrity
Downloaded ==
    /\ result.op = "install_latest_version"
    /\ result.value.link
    /\ result.value.dl
    /\ result.exc \notin {"FileNotFoundError"}

\* C26: when check_integrity returns False or raises, install_latest_version
\* raises IntegrityCheckError, the downloaded file is not at the install path,
\* and a previously installed file is where it was, with its content
C26_FailedInstallRestoresOldFile ==
    Downloaded /\ result.arg[2] # "true" =>
        /\ result.exc = "IntegrityCheckError"
        /\ result.value.fs["new"] # "downloaded"
        /\ result.arg[1] # "none" =>
               result.value.fs[OldPath(result.arg[1])] = "installed"

\* C29: when install_latest_version returns, the downloaded file is at the
\* install path, also when the previously installed file was at that path
C29_InstalledFileSurvivesCleanup ==
    result.op = "install_latest_version" /\ result.exc = "none" =>
        result.value.fs["new"] = "downloaded"

\* C27: when attempt_download has downloaded genuine bytes from a mirror, it
\* returns, current_mirror is that mirror, its file is at the install path,
\* and every mirror tried before it is out of the list
C27_CurrentMirrorIsVerifiedSource ==
    AttemptReturned /\ Genuine # {} =>
        /\ raised.type = "none"
        /\ current_mirror = oplog[FirstGenuine].m
        /\ local_file.exists
        /\ local_file.src = current_mirror
        /\ \A k \in 1..(FirstGenuine - 1) : oplog[k].m \notin Range(_mirrors)

\* the mechanism C27 rests on, for any func: a pass with stop_after_success in
\* which func succeeded returns with the succeeding mirror at the head of the
\* list and every mirror tried before it removed
C27_PassEndsAtSucceededMirror ==
    (/\ pc = "ranked"
     /\ raised.func = "func"
     /\ args.stop_after_success
     /\ \E k \in 1..Len(oplog) : ~FailedUnder(oplog[k])) =>
        /\ raised.type = "none"
        /\ ~FailedUnder(oplog[Len(oplog)])
        /\ current_mirror = oplog[Len(oplog)].m
        /\ \A k \in 1..(Len(oplog) - 1) :
               FailedUnder(oplog[k]) /\ oplog[k].m \notin Range(_mirrors)

\* C28: the version filter never empties the list it starts from; a
\* construction that fails does so with the NoMirrorsError of the
\* initialization pass; and a constructed manager, before any download, has a
\* non-empty list and a current_mirror
C28_FilterNeverEmptiesList ==
    /\ pc = "filtering" =>
           /\ mirror_copy # <<>>
           /\ _mirrors # <<>>
           /\ \E m \in Range(_mirrors) : VersionEq(version[m], latest_version)
    /\ pc = "failed" =>
           /\ raised.type = "NoMirrorsError"
           /\ raised.func = "initialize"
    /\ pc = "ranked" /\ calls = 0 =>
           /\ _mirrors # <<>>
           /\ current_mirror \in Range(candidates)

\* C28 witness: the filter removed a mirror with an older version and the
\* manager was constructed with the other mirrors
C28_Witness ==
    /\ pc = "ranked"
    /\ calls = 0
    /\ raised.func = "version_eq"
    /\ raised.type = "none"
    /\ \E k \in 1..Len(oplog) : ~oplog[k].ret
    /\ _mirrors # <<>>

\* C30: windows_consumer_download returns a link whose recorded expiry is
\* still ahead; it fetches a link exactly when none is cached for the SKU or
\* the cached one has expired, and reuses the cached one otherwise
C30_NoExpiredLinkReturned ==
    result.op = "windows_consumer_download" /\ result.arg[1] \in Skus =>
        LET before == result.value.before
            after == result.value.after
            at == result.value.at
        IN  /\ result.ret <=> (~before.cached \/ at >= before.expires)
            /\ result.exc = "none" =>
                   /\ result.value.link = after.link
                   /\ at < after.expires

\* C30 witness: a link was cached, its expiry passed, and the next call
\* returned a link
C30_Witness ==
    /\ result.op = "windows_consumer_download"
    /\ result.exc = "none"
    /\ result.value.before.cached
    /\ result.value.at >= result.value.before.expires
====
